---- MODULE Spec2Model ----
(***************************************************************************)
(* The registration workflow of useRegisterIPAgent (src/next.config.mjs):  *)
(* the React state registerState, the async function executeRegister cut   *)
(* at its awaits, ensureAeneid and resetRegister.  JavaScript runs the     *)
(* code between two awaits without interruption, so every action below is  *)
(* one such stretch of one run; several runs of executeRegister and calls *)
(* of resetRegister interleave at the awaits.                              *)
(***************************************************************************)
EXTENDS Integers, Sequences, FiniteSets

\* Number of invocations of executeRegister in a behaviour.
MaxRuns == 2
Runs == 1..MaxRuns

\* ------------------------------------------------------------------------
\* JavaScript strings

StartsWith(s, p) == Len(s) >= Len(p) /\ SubSeq(s, 1, Len(p)) = p

Includes(s, t) == \E i \in 1..(Len(s) - Len(t) + 1) : SubSeq(s, i, i + Len(t) - 1) = t

\* ------------------------------------------------------------------------
\* JavaScript values that can be thrown or stored in registerState.error

ErrorObj(m) == [kind |-> "Error", message |-> m]
StringVal(s) == [kind |-> "string", message |-> s]
Null == [kind |-> "null", message |-> ""]
Undefined == [kind |-> "undefined", message |-> ""]

IsNullish(v) == v.kind \in {"null", "undefined"}

\* String(error)
StringOf(v) ==
  CASE v.kind = "Error" -> IF v.message = "" THEN "Error" ELSE "Error: " \o v.message
    [] v.kind = "string" -> v.message
    [] v.kind = "null" -> "null"
    [] OTHER -> "undefined"

\* error?.message || String(error)
ErrorMessage(v) ==
  IF v.kind = "Error" /\ v.message # "" THEN v.message ELSE StringOf(v)

\* ------------------------------------------------------------------------
\* Ambient values and the values the external services hand back.  The chain
\* id is whatever the wallet is on when executeRegister is called.

AeneidChainId == 1315
ChainIds == {AeneidChainId, 1}

SPG_COLLECTION_ADDRESS == "0xc32A8a0FF3beDDDa58393d022aF433e78739FAbc"

Absent == "<absent>"

Hex64 == "00112233445566778899aabbccddeeff00112233445566778899aabbccddeeff"
GoodHash == "0x" \o Hex64
\* what keccakOfJson may hand back: a well-formed hash, 66 characters without
\* the 0x prefix, and a 0x-prefixed string that is too short
Hashes == {GoodHash, Hex64 \o "00", "0x" \o "1234"}
\* what toIpfsUri(extractCid(..)) may hand back
Uris == {"ipfs://QmMeta", "https://ipfs.io/ipfs/QmMeta"}

\* what mintAndRegisterIp may resolve with
MintResults == {[ipId |-> "0xABC", txHash |-> "0xDEF"],
                [ipId |-> "0x123", txHash |-> "0x456"]}

\* what an external call or helper may throw
Thrown == {ErrorObj("network down"), StringVal(""), Undefined}
\* what mintAndRegisterIp may reject with
MintThrown == {ErrorObj("execution reverted: SPG mint failed"),
               ErrorObj("User rejected the request"), ErrorObj(""),
               StringVal("execution reverted"), Null}

\* ------------------------------------------------------------------------
\* State

VARIABLES
  registerState,  \* the useState cell
  chainId,        \* per run: useChainId() as the closure of the run read it
  switchTo,       \* per run: the chain it asked switchChainAsync for, 0 if none
  pc,             \* per run: "free", the call it is suspended on, or "done"
  locals,         \* per run: the metadata URIs and hashes it has computed
  result,         \* per run: the value executeRegister returned
  writes,         \* per run: <<status, progress>> after each of its state updates
  calls,          \* per run: the external calls it issued, in order
  mintArgs        \* per run: the ipMetadata argument of its mintAndRegisterIp call

vars == <<registerState, chainId, switchTo, pc, locals, result, writes, calls, mintArgs>>

NoLocals == [ipMetadataURI |-> "", ipMetadataHash |-> "",
             nftMetadataURI |-> "", nftMetadataHash |-> ""]
NoArgs == NoLocals
NoResult == [returned |-> FALSE, success |-> FALSE, error |-> "",
             ipId |-> Absent, txHash |-> Absent]

\* ------------------------------------------------------------------------
\* The values given to setRegisterState

FreshState(status, progress) ==
  [status |-> status, progress |-> progress, error |-> Null,
   ipId |-> Absent, txHash |-> Absent]

\* faulty variant: the stage update sets the status and forgets the progress
StageUpdateKeepsProgress(prev, status, progress) ==
  [prev EXCEPT !.status = status]

StageUpdate(prev, status, progress) ==
  [prev EXCEPT !.status = status, !.progress = progress]

\* faulty variant: the success state leaves out the identifiers
SuccessStateNoIds(res) == FreshState("success", 100)

SuccessState(res) ==
  [status |-> "success", progress |-> 100, error |-> Null,
   ipId |-> res.ipId, txHash |-> res.txHash]

\* faulty variant: the catch rolls progress back to 0
ErrorUpdateRollsBack(prev, error) ==
  [prev EXCEPT !.status = "error", !.error = error, !.progress = 0]

\* faulty variant: the catch clears the identifiers of an earlier success
ErrorUpdateClearsIds(prev, error) ==
  [prev EXCEPT !.status = "error", !.error = error,
               !.ipId = Absent, !.txHash = Absent]

ErrorUpdate(prev, error) ==
  [prev EXCEPT !.status = "error", !.error = error]

\* faulty variant: the reset merges into the previous state, as the stage updates do
ResetStateMerges(prev) ==
  [prev EXCEPT !.status = "idle", !.progress = 0, !.error = Null]

\* faulty variant: the reset sets the status back and leaves the progress
ResetStateKeepsProgress(prev) == [prev EXCEPT !.status = "idle", !.error = Null]

ResetState(prev) == FreshState("idle", 0)

SuccessResult(res) ==
  [returned |-> TRUE, success |-> TRUE, error |-> "",
   ipId |-> res.ipId, txHash |-> res.txHash]

FailureResult(error) ==
  [returned |-> TRUE, success |-> FALSE, error |-> ErrorMessage(error),
   ipId |-> Absent, txHash |-> Absent]

Init ==
  /\ registerState = FreshState("idle", 0)
  /\ chainId = [r \in Runs |-> 0]
  /\ switchTo = [r \in Runs |-> 0]
  /\ pc = [r \in Runs |-> "free"]
  /\ locals = [r \in Runs |-> NoLocals]
  /\ result = [r \in Runs |-> NoResult]
  /\ writes = [r \in Runs |-> <<>>]
  /\ calls = [r \in Runs |-> <<>>]
  /\ mintArgs = [r \in Runs |-> NoArgs]

\* ------------------------------------------------------------------------
\* Steps of one run

\* issue an external call and suspend on it
Await(r, label, call) ==
  /\ pc' = [pc EXCEPT ![r] = label]
  /\ calls' = [calls EXCEPT ![r] = Append(@, call)]

\* what the log of a run keeps of a state it wrote
Pair(state) == <<state.status, state.progress>>

\* a state update made by run r
Write(r, state) ==
  /\ registerState' = state
  /\ writes' = [writes EXCEPT ![r] = Append(@, Pair(state))]

\* faulty variant: the catch records the error and throws it on to the caller
CatchRethrows(r, error) ==
  /\ Write(r, ErrorUpdate(registerState, error))
  /\ pc' = [pc EXCEPT ![r] = "threw"]
  /\ locals' = [locals EXCEPT ![r] = NoLocals]
  /\ UNCHANGED result

\* the catch of executeRegister: record the error, return the failure result
Catch(r, error) ==
  /\ Write(r, ErrorUpdate(registerState, error))
  /\ result' = [result EXCEPT ![r] = FailureResult(error)]
  /\ pc' = [pc EXCEPT ![r] = "done"]
  /\ locals' = [locals EXCEPT ![r] = NoLocals]

\* faulty variant: ensureAeneid asks for a switch whatever the chain is
NeedsSwitchAlways(chain) == TRUE

\* ensureAeneid asks for a switch exactly when the chain is not Aeneid
NeedsSwitch(chain) == chain # AeneidChainId

\* the chain ensureAeneid asks switchChainAsync for
SwitchTarget == 1315

\* what ensureAeneid throws when switchChainAsync rejects with e
SwitchError(e) == ErrorObj("Failed to switch to Aeneid network")

\* executeRegister is called: it runs up to `await ensureAeneid()`
Start(r, chain) ==
  /\ pc[r] = "free"
  /\ \A q \in Runs : q < r => pc[q] # "free"
  /\ chainId' = [chainId EXCEPT ![r] = chain]
  /\ switchTo' = [switchTo EXCEPT ![r] = IF NeedsSwitch(chain) THEN SwitchTarget ELSE 0]
  /\ pc' = [pc EXCEPT ![r] = "ensureAeneid"]
  /\ calls' = [calls EXCEPT ![r] =
                 IF NeedsSwitch(chain) THEN <<"switchChainAsync">> ELSE <<>>]
  /\ UNCHANGED <<registerState, locals, result, writes, mintArgs>>

\* ensureAeneid returned: reset the state to compressing, call compressImage
EnsureAeneidDone(r) ==
  /\ pc[r] = "ensureAeneid"
  /\ Write(r, FreshState("compressing", 10))
  /\ Await(r, "compressImage", "compressImage")
  /\ UNCHANGED <<chainId, switchTo, locals, result, mintArgs>>

\* faulty variant: ensureAeneid swallows the rejection and the run goes on
EnsureAeneidFailSwallowed(r, e) ==
  /\ pc[r] = "ensureAeneid"
  /\ calls[r] # <<>>
  /\ Write(r, FreshState("compressing", 10))
  /\ Await(r, "compressImage", "compressImage")
  /\ UNCHANGED <<chainId, switchTo, locals, result, mintArgs>>

\* switchChainAsync rejected
EnsureAeneidFail(r, e) ==
  /\ pc[r] = "ensureAeneid"
  /\ calls[r] # <<>>
  /\ Catch(r, SwitchError(e))
  /\ UNCHANGED <<chainId, switchTo, calls, mintArgs>>

CompressImageDone(r) ==
  /\ pc[r] = "compressImage"
  /\ Write(r, StageUpdate(registerState, "uploading-image", 25))
  /\ Await(r, "uploadFile", "uploadFile")
  /\ UNCHANGED <<chainId, switchTo, locals, result, mintArgs>>

\* faulty variant: the image hash is skipped after the upload
UploadFileDoneSkipsHash(r) ==
  /\ pc[r] = "uploadFile"
  /\ Await(r, "uploadJSON(ipMetadata)", "uploadJSON(ipMetadata)")
  /\ UNCHANGED <<registerState, chainId, switchTo, locals, result, writes, mintArgs>>

UploadFileDone(r) ==
  /\ pc[r] = "uploadFile"
  /\ Await(r, "sha256HexOfFile", "sha256HexOfFile")
  /\ UNCHANGED <<registerState, chainId, switchTo, locals, result, writes, mintArgs>>

Sha256Done(r) ==
  /\ pc[r] = "sha256HexOfFile"
  /\ Write(r, StageUpdate(registerState, "creating-metadata", 50))
  /\ Await(r, "uploadJSON(ipMetadata)", "uploadJSON(ipMetadata)")
  /\ UNCHANGED <<chainId, switchTo, locals, result, mintArgs>>

UploadIpMetadataDone(r, uri) ==
  /\ pc[r] = "uploadJSON(ipMetadata)"
  /\ locals' = [locals EXCEPT ![r].ipMetadataURI = uri]
  /\ Await(r, "keccakOfJson(ipMetadata)", "keccakOfJson(ipMetadata)")
  /\ UNCHANGED <<registerState, chainId, switchTo, result, writes, mintArgs>>

KeccakIpMetadataDone(r, hash) ==
  /\ pc[r] = "keccakOfJson(ipMetadata)"
  /\ locals' = [locals EXCEPT ![r].ipMetadataHash = hash]
  /\ Write(r, StageUpdate(registerState, "uploading-metadata", 60))
  /\ Await(r, "uploadJSON(nftMetadata)", "uploadJSON(nftMetadata)")
  /\ UNCHANGED <<chainId, switchTo, result, mintArgs>>

UploadNftMetadataDone(r, uri) ==
  /\ pc[r] = "uploadJSON(nftMetadata)"
  /\ locals' = [locals EXCEPT ![r].nftMetadataURI = uri]
  /\ Await(r, "keccakOfJson(nftMetadata)", "keccakOfJson(nftMetadata)")
  /\ UNCHANGED <<registerState, chainId, switchTo, result, writes, mintArgs>>

\* faulty variant: the hash checks look at the prefix only
ValidationErrorNoLength(ipUri, ipHash, nftUri, nftHash) ==
  IF ~StartsWith(ipUri, "ipfs://") THEN "Invalid IP metadata URI format"
  ELSE IF ~StartsWith(nftUri, "ipfs://") THEN "Invalid NFT metadata URI format"
  ELSE IF ~StartsWith(ipHash, "0x") THEN "Invalid IP metadata hash format"
  ELSE IF ~StartsWith(nftHash, "0x") THEN "Invalid NFT metadata hash format"
  ELSE ""

\* the four checks before the contract call: the message of the first one
\* that fails, "" when all pass
ValidationError(ipUri, ipHash, nftUri, nftHash) ==
  IF ~StartsWith(ipUri, "ipfs://") THEN "Invalid IP metadata URI format"
  ELSE IF ~StartsWith(nftUri, "ipfs://") THEN "Invalid NFT metadata URI format"
  ELSE IF ~StartsWith(ipHash, "0x") \/ Len(ipHash) # 66
    THEN "Invalid IP metadata hash format"
  ELSE IF ~StartsWith(nftHash, "0x") \/ Len(nftHash) # 66
    THEN "Invalid NFT metadata hash format"
  ELSE ""

\* keccakOfJson(nftMetadata) returned: set minting, validate, call getClient
KeccakNftMetadataDone(r, hash) ==
  LET minting == StageUpdate(registerState, "minting", 75)
      msg == ValidationError(locals[r].ipMetadataURI, locals[r].ipMetadataHash,
                             locals[r].nftMetadataURI, hash)
      failed == ErrorUpdate(minting, ErrorObj(msg))
  IN
  /\ pc[r] = "keccakOfJson(nftMetadata)"
  /\ IF msg # ""
     THEN /\ registerState' = failed
          /\ writes' = [writes EXCEPT ![r] = @ \o <<Pair(minting), Pair(failed)>>]
          /\ result' = [result EXCEPT ![r] = FailureResult(ErrorObj(msg))]
          /\ pc' = [pc EXCEPT ![r] = "done"]
          /\ locals' = [locals EXCEPT ![r] = NoLocals]
          /\ UNCHANGED calls
     ELSE /\ Write(r, minting)
          /\ Await(r, "getClient", "getClient")
          /\ locals' = [locals EXCEPT ![r].nftMetadataHash = hash]
          /\ UNCHANGED result
  /\ UNCHANGED <<chainId, switchTo, mintArgs>>

\* getClient returned: call mintAndRegisterIp with the metadata
GetClientDone(r) ==
  /\ pc[r] = "getClient"
  /\ Await(r, "mintAndRegisterIp", "mintAndRegisterIp")
  /\ mintArgs' = [mintArgs EXCEPT ![r] = locals[r]]
  /\ UNCHANGED <<registerState, chainId, switchTo, locals, result, writes>>

\* mintAndRegisterIp resolved with res
MintDone(r, res) ==
  /\ pc[r] = "mintAndRegisterIp"
  /\ Write(r, SuccessState(res))
  /\ result' = [result EXCEPT ![r] = SuccessResult(res)]
  /\ pc' = [pc EXCEPT ![r] = "done"]
  /\ locals' = [locals EXCEPT ![r] = NoLocals]
  /\ UNCHANGED <<chainId, switchTo, calls, mintArgs>>

\* faulty variant: the enriched message leaves out the original error
ContractErrorDropsOriginal(contractError) ==
  IF IsNullish(contractError)
  THEN ErrorObj("Cannot read properties of " \o contractError.kind
                \o " (reading 'message')")
  ELSE IF contractError.kind = "Error"
          /\ Includes(contractError.message, "execution reverted")
  THEN ErrorObj("Contract execution failed.\n"
                \o "Using SPG: " \o SPG_COLLECTION_ADDRESS)
  ELSE contractError

\* the inner catch: what it throws on to the outer catch (the bullet
\* character of the message is written * here)
ContractError(contractError) ==
  IF IsNullish(contractError)
  THEN ErrorObj("Cannot read properties of " \o contractError.kind
                \o " (reading 'message')")
  ELSE IF contractError.kind = "Error"
          /\ Includes(contractError.message, "execution reverted")
  THEN ErrorObj("Contract execution failed. This could be due to:\n"
                \o "* Invalid metadata format\n"
                \o "* Insufficient gas\n"
                \o "* Wrong SPG collection address\n"
                \o "* Network issues\n\n"
                \o "Using SPG: " \o SPG_COLLECTION_ADDRESS \o "\n"
                \o "Original error: " \o contractError.message)
  ELSE contractError

\* mintAndRegisterIp rejected with contractError
MintFail(r, contractError) ==
  /\ pc[r] = "mintAndRegisterIp"
  /\ Catch(r, ContractError(contractError))
  /\ UNCHANGED <<chainId, switchTo, calls, mintArgs>>

\* the calls whose failure goes straight to the outer catch
PlainStages == {"compressImage", "uploadFile", "sha256HexOfFile",
                "uploadJSON(ipMetadata)", "keccakOfJson(ipMetadata)",
                "uploadJSON(nftMetadata)", "keccakOfJson(nftMetadata)", "getClient"}

\* faulty variant: a failed call is issued again before the run gives up
StageFailRetries(r, e) ==
  /\ pc[r] \in PlainStages
  /\ IF Len(calls[r]) <= Cardinality(PlainStages)
     THEN /\ Await(r, pc[r], pc[r])
          /\ UNCHANGED <<registerState, locals, result, writes>>
     ELSE /\ Catch(r, e)
          /\ UNCHANGED calls
  /\ UNCHANGED <<chainId, switchTo, mintArgs>>

\* an external call, or the helper code that reads its value, threw e
StageFail(r, e) ==
  /\ pc[r] \in PlainStages
  /\ Catch(r, e)
  /\ UNCHANGED <<chainId, switchTo, calls, mintArgs>>

\* ------------------------------------------------------------------------
\* resetRegister

ResetRegister ==
  /\ registerState' = ResetState(registerState)
  /\ UNCHANGED <<chainId, switchTo, pc, locals, result, writes, calls, mintArgs>>

Next ==
  \/ \E r \in Runs, chain \in ChainIds : Start(r, chain)
  \/ \E r \in Runs : EnsureAeneidDone(r)
  \/ \E r \in Runs, e \in Thrown : EnsureAeneidFail(r, e)
  \/ \E r \in Runs : CompressImageDone(r)
  \/ \E r \in Runs : UploadFileDone(r)
  \/ \E r \in Runs : Sha256Done(r)
  \/ \E r \in Runs, uri \in Uris : UploadIpMetadataDone(r, uri)
  \/ \E r \in Runs, hash \in Hashes : KeccakIpMetadataDone(r, hash)
  \/ \E r \in Runs, uri \in Uris : UploadNftMetadataDone(r, uri)
  \/ \E r \in Runs, hash \in Hashes : KeccakNftMetadataDone(r, hash)
  \/ \E r \in Runs : GetClientDone(r)
  \/ \E r \in Runs, res \in MintResults : MintDone(r, res)
  \/ \E r \in Runs, e \in MintThrown : MintFail(r, e)
  \/ \E r \in Runs, e \in Thrown : StageFail(r, e)
  \/ ResetRegister

Spec == Init /\ [][Next]_vars

\* The continuation of run r: every step it takes once it has been called.
RunStep(r) ==
  \/ EnsureAeneidDone(r)
  \/ \E e \in Thrown : EnsureAeneidFail(r, e)
  \/ CompressImageDone(r)
  \/ UploadFileDone(r)
  \/ Sha256Done(r)
  \/ \E uri \in Uris : UploadIpMetadataDone(r, uri)
  \/ \E hash \in Hashes : KeccakIpMetadataDone(r, hash)
  \/ \E uri \in Uris : UploadNftMetadataDone(r, uri)
  \/ \E hash \in Hashes : KeccakNftMetadataDone(r, hash)
  \/ GetClientDone(r)
  \/ \E res \in MintResults : MintDone(r, res)
  \/ \E e \in MintThrown : MintFail(r, e)
  \/ \E e \in Thrown : StageFail(r, e)

\* Every awaited call of every run eventually returns or fails, and the
\* event loop then runs the continuation.
FairSpec == Spec /\ \A r \in Runs : WF_vars(RunStep(r))

\* The caller starts executeRegister only while the status is idle, success
\* or error.
GuardedStart(r, chain) ==
  /\ registerState.status \in {"idle", "success", "error"}
  /\ Start(r, chain)

GuardedNext ==
  \/ \E r \in Runs, chain \in ChainIds : GuardedStart(r, chain)
  \/ \E r \in Runs : RunStep(r)
  \/ ResetRegister

GuardedSpec == Init /\ [][GuardedNext]_vars

\* The caller starts executeRegister only when no earlier run is in flight.
SequentialStart(r, chain) ==
  /\ \A q \in Runs : pc[q] \in {"free", "done"}
  /\ Start(r, chain)

SequentialNext ==
  \/ \E r \in Runs, chain \in ChainIds : SequentialStart(r, chain)
  \/ \E r \in Runs : RunStep(r)
  \/ ResetRegister

SequentialSpec == Init /\ [][SequentialNext]_vars

\* ------------------------------------------------------------------------
\* Properties

\* the state updates of a run that succeeds
SuccessTrace ==
  << <<"compressing", 10>>, <<"uploading-image", 25>>, <<"creating-metadata", 50>>,
     <<"uploading-metadata", 60>>, <<"minting", 75>>, <<"success", 100>> >>

InFlight == {"compressing", "uploading-image", "creating-metadata",
             "uploading-metadata", "minting"}

\* run r returns in this step
Returns(r) == ~result[r].returned /\ result'[r].returned

\* the metadata run r holds once keccakOfJson(nftMetadata) has returned hash
MetadataOf(r, hash) == [locals[r] EXCEPT !.nftMetadataHash = hash]

MetadataValid(a) ==
  /\ StartsWith(a.ipMetadataURI, "ipfs://")
  /\ StartsWith(a.nftMetadataURI, "ipfs://")
  /\ StartsWith(a.ipMetadataHash, "0x") /\ Len(a.ipMetadataHash) = 66
  /\ StartsWith(a.nftMetadataHash, "0x") /\ Len(a.nftMetadataHash) = 66

\* a stage of run r throws in this step: the network switch, an external call
\* or helper, the validation, or the remote registration call
Threw(r) ==
  \/ \E e \in Thrown : EnsureAeneidFail(r, e) \/ StageFail(r, e)
  \/ \E e \in MintThrown : MintFail(r, e)
  \/ \E hash \in Hashes :
       KeccakNftMetadataDone(r, hash) /\ ~MetadataValid(MetadataOf(r, hash))

\* C1: a run that returns success wrote progress 10, 25, 50, 60, 75, 100 in
\* that order, strictly increasing, and nothing else; the state after its
\* last write has status success.
C1_SuccessfulRunProgress ==
  \A r \in Runs :
    result[r].returned /\ result[r].success =>
      /\ writes[r] = SuccessTrace
      /\ \A i \in 1..(Len(writes[r]) - 1) : writes[r][i][2] < writes[r][i + 1][2]
      /\ writes[r][Len(writes[r])][1] = "success"

\* a run has succeeded with no other run started
C1_Witness ==
  /\ result[1].returned /\ result[1].success
  /\ \A r \in Runs : r # 1 => pc[r] = "free"

\* a thrown value that leaves a description in registerState.error
HasDescription(v) == ~IsNullish(v) /\ ErrorMessage(v) # ""

\* C2: whatever is thrown in a run, the run returns success = false and, when
\* it returns, status is error and error holds a non-empty description.
C2_FailureIsRecorded ==
  [][\A r \in Runs :
       Threw(r) =>
         /\ result'[r].returned /\ ~result'[r].success
         /\ registerState'.status = "error"
         /\ HasDescription(registerState'.error)]_vars

MintInvoked(r) == \E i \in 1..Len(calls[r]) : calls[r][i] = "mintAndRegisterIp"

\* C3: mintAndRegisterIp is invoked only with two ipfs:// URIs and two
\* 0x-prefixed hashes of length 66; a run in which one of the four checks
\* fails returns a failure result and never invokes mintAndRegisterIp.
C3_ValidationGate ==
  /\ [](\A r \in Runs : MintInvoked(r) => MetadataValid(mintArgs[r]))
  /\ [](\A r \in Runs :
          pc[r] \in {"getClient", "mintAndRegisterIp"} => MetadataValid(locals[r]))
  /\ [][\A r \in Runs, hash \in Hashes :
          KeccakNftMetadataDone(r, hash) /\ ~MetadataValid(MetadataOf(r, hash)) =>
            /\ result'[r].returned /\ ~result'[r].success
            /\ pc'[r] = "done"
            /\ ~MintInvoked(r)']_vars
  /\ [][\A r \in Runs : pc[r] = "done" => pc'[r] = "done" /\ calls'[r] = calls[r]]_vars

\* a run has failed on the hash check without invoking mintAndRegisterIp
C3_Witness ==
  \E r \in Runs :
    /\ result[r].returned /\ ~result[r].success
    /\ result[r].error = "Invalid NFT metadata hash format"
    /\ ~MintInvoked(r)

IdleState ==
  [status |-> "idle", progress |-> 0, error |-> Null, ipId |-> Absent, txHash |-> Absent]

\* C4: resetRegister takes every reachable state to {idle, 0, null} without
\* ipId or txHash, and a second reset changes nothing.
C4_ResetYieldsIdle ==
  [][ResetRegister =>
       /\ registerState' = IdleState
       /\ ResetState(registerState') = registerState']_vars

\* resetRegister has acted on the state a successful run left
C4_Witness ==
  /\ registerState = IdleState
  /\ \E r \in Runs : result[r].returned /\ result[r].success

\* C5: when mintAndRegisterIp rejects with an error whose message contains
\* "execution reverted", the error message of the failure result contains
\* the collection address and the original message.
C5_RevertIsEnriched ==
  [][\A r \in Runs, e \in MintThrown :
       MintFail(r, e) /\ e.kind = "Error" /\ Includes(e.message, "execution reverted") =>
         /\ result'[r].returned /\ ~result'[r].success
         /\ Includes(result'[r].error, SPG_COLLECTION_ADDRESS)
         /\ Includes(result'[r].error, e.message)]_vars

\* a run has returned the enriched message
C5_Witness ==
  \E r \in Runs :
    /\ result[r].returned /\ ~result[r].success
    /\ Includes(result[r].error, "execution reverted")
    /\ Includes(result[r].error, SPG_COLLECTION_ADDRESS)

\* C6: error is non-null only when status is error.
C6_ErrorOnlyWhenError ==
  registerState.status # "error" => IsNullish(registerState.error)

\* C7: ipId and txHash are present only when status is success.
C7_IdsOnlyWhenSuccess ==
  registerState.status # "success" =>
    registerState.ipId = Absent /\ registerState.txHash = Absent

\* the fixed sequence of status and progress
Sequence == << <<"idle", 0>> >> \o SuccessTrace

\* run r updates the state in this step
Writes(r) == writes'[r] # writes[r]

\* the entries run r adds to its log in this step
NewWrites(r) == SubSeq(writes'[r], Len(writes[r]) + 1, Len(writes'[r]))

\* C8 as claimed: every change of the state by a run is a step to the
\* immediate successor in the fixed sequence or a transition to error from
\* an in-flight stage, and progress decreases only when a reset returns the
\* state to idle with progress 0.
C8_ForwardOrErrorOnly ==
  [][/\ \A r \in Runs :
          Writes(r) /\ registerState' # registerState =>
            \/ \E i \in 1..(Len(Sequence) - 1) :
                 /\ Pair(registerState) = Sequence[i]
                 /\ Pair(registerState') = Sequence[i + 1]
            \/ /\ registerState.status \in InFlight
               /\ registerState'.status = "error"
     /\ registerState'.progress < registerState.progress =>
          ResetRegister /\ Pair(registerState') = <<"idle", 0>>]_vars

\* C8 as amended: every write of a run is (a) its first stage write,
\* compressing(10) with error and identifiers cleared, from whatever state is
\* current; (b) the stage after the one the run wrote last, which is the
\* immediate successor step whenever the state still is what the run wrote
\* last; or (c) a transition to error that keeps the progress, from any
\* status.  Progress decreases only in a reset, in (a), or in (b) after
\* another run's write.
C8_RunWritesInOrder ==
  [][/\ \A r \in Runs :
          Writes(r) =>
            LET old == writes[r]
                new == NewWrites(r)
                last == new[Len(new)]
                stages == IF last[1] = "error"
                          THEN old \o SubSeq(new, 1, Len(new) - 1)
                          ELSE writes'[r]
                before == IF Len(new) = 2 THEN new[1][2] ELSE registerState.progress
            IN /\ Pair(registerState') = last
               /\ Len(stages) <= Len(SuccessTrace)
               /\ stages = SubSeq(SuccessTrace, 1, Len(stages))
               /\ (old = <<>> /\ last[1] # "error") =>
                     registerState' = FreshState("compressing", 10)
               /\ last[1] = "error" => last[2] = before
               /\ (old # <<>> /\ Pair(registerState) = old[Len(old)] /\ last[1] # "error") =>
                     \E i \in 1..(Len(Sequence) - 1) :
                       /\ Pair(registerState) = Sequence[i]
                       /\ Pair(registerState') = Sequence[i + 1]
               /\ registerState'.progress < registerState.progress =>
                     \/ old = <<>> /\ last[1] # "error"
                     \/ old # <<>> /\ Pair(registerState) # old[Len(old)]
     /\ registerState'.progress < registerState.progress =>
          ResetRegister \/ \E r \in Runs : Writes(r)]_vars

\* a second run has restarted from the success state of the first: progress
\* went from 100 back to 10
C8_Witness ==
  /\ Pair(registerState) = <<"compressing", 10>>
  /\ \E r \in Runs : result[r].returned /\ result[r].success

\* C9: when the network switch is rejected the run returns at once with the
\* network-switch error; it has written no stage and issued no call after
\* switchChainAsync, and it never does.
C9_SwitchFailureStopsRun ==
  /\ [][\A r \in Runs, e \in Thrown :
          EnsureAeneidFail(r, e) =>
            /\ pc'[r] = "done"
            /\ result'[r].returned /\ ~result'[r].success
            /\ result'[r].error = "Failed to switch to Aeneid network"
            /\ registerState'.status = "error"
            /\ calls'[r] = <<"switchChainAsync">>
            /\ writes'[r] = <<Pair(registerState')>>]_vars
  /\ [][\A r \in Runs :
          pc[r] = "done" =>
            pc'[r] = "done" /\ calls'[r] = calls[r] /\ writes'[r] = writes[r]]_vars

\* a run has ended on a rejected network switch
C9_Witness ==
  \E r \in Runs :
    /\ pc[r] = "done"
    /\ result[r].error = "Failed to switch to Aeneid network"
    /\ calls[r] = <<"switchChainAsync">>

\* C10: when every awaited call settles, every run that was started returns
\* a result value, and no run ends by throwing to its caller.
C10_RunAlwaysReturns ==
  /\ \A r \in Runs : (pc[r] # "free") ~> (pc[r] = "done" /\ result[r].returned)
  /\ [](\A r \in Runs : pc[r] # "threw")
  /\ [](\A r \in Runs : pc[r] = "done" => result[r].returned)

\* a run has returned a failure result for an error raised in a stage
C10_Witness ==
  \E r \in Runs : pc[r] = "done" /\ result[r].returned /\ ~result[r].success

\* C11: a reset called while a run is suspended leaves {idle, 0, null}, and
\* the later steps of that run write nothing into the state: once the state
\* is idle again under a run that has already written, it stays idle through
\* every step of that run.
C11_ResetDiscardsRun ==
  [][/\ ResetRegister => registerState' = IdleState
     /\ \A r \in Runs :
          (writes[r] # <<>> /\ registerState = IdleState /\ pc'[r] # pc[r]) =>
            registerState' = IdleState]_vars

\* the external calls of a run whose closure read `chain`, in program order
CallOrder(chain) ==
  (IF NeedsSwitch(chain) THEN <<"switchChainAsync">> ELSE <<>>)
  \o <<"compressImage", "uploadFile", "sha256HexOfFile",
       "uploadJSON(ipMetadata)", "keccakOfJson(ipMetadata)",
       "uploadJSON(nftMetadata)", "keccakOfJson(nftMetadata)",
       "getClient", "mintAndRegisterIp">>

IsPrefix(s, t) == Len(s) <= Len(t) /\ SubSeq(t, 1, Len(s)) = s

\* the call run r is suspended on, "" when it is not suspended
Outstanding(r) ==
  IF pc[r] \in {"free", "done"} THEN ""
  ELSE IF pc[r] = "ensureAeneid"
    THEN (IF NeedsSwitch(chainId[r]) THEN "switchChainAsync" ELSE "")
  ELSE pc[r]

\* C12: the calls a run has issued are always a prefix of the fixed order
\* (network switch only if needed, compressImage, uploadFile, sha256HexOfFile,
\* uploadJSON(IP), keccakOfJson(IP), uploadJSON(NFT), keccakOfJson(NFT),
\* getClient, mintAndRegisterIp), and the only call of the run that has not
\* returned is the last one it issued.
C12_CallsInOrder ==
  \A r \in Runs :
    /\ IsPrefix(calls[r], CallOrder(chainId[r]))
    /\ Outstanding(r) # "" => /\ calls[r] # <<>>
                              /\ Outstanding(r) = calls[r][Len(calls[r])]

C12_Witness ==
  \E r \in Runs : /\ result[r].success
                  /\ NeedsSwitch(chainId[r])
                  /\ calls[r] = CallOrder(chainId[r])

\* how many of the calls in the log are calls of the function `name`
Count(log, name) ==
  Cardinality({i \in 1..Len(log) : StartsWith(log[i], name)})

\* C13: nothing is retried and every step is gated on the previous one: in a
\* run the network switch, compressImage, uploadFile and mintAndRegisterIp are
\* each called at most once and uploadJSON at most twice; the step in which a
\* stage of a run throws issues no call and ends the run, and a run that has
\* ended issues no call.
C13_NoRetryGated ==
  [][\A r \in Runs :
       /\ Count(calls'[r], "switchChainAsync") <= 1
       /\ Count(calls'[r], "compressImage") <= 1
       /\ Count(calls'[r], "uploadFile") <= 1
       /\ Count(calls'[r], "mintAndRegisterIp") <= 1
       /\ Count(calls'[r], "uploadJSON") <= 2
       /\ Threw(r) => calls'[r] = calls[r] /\ pc'[r] = "done"
       /\ pc[r] = "done" => calls'[r] = calls[r] /\ pc'[r] = "done"]_vars

C13_Witness ==
  \E r \in Runs : /\ result[r].returned /\ ~result[r].success
                  /\ Count(calls[r], "uploadJSON") = 2
                  /\ Count(calls[r], "mintAndRegisterIp") = 0
                  /\ calls[r][Len(calls[r])] = "uploadJSON(nftMetadata)"

\* the test of the inner catch: contractError.message?.includes('execution reverted')
IsRevert(e) == e.kind = "Error" /\ Includes(e.message, "execution reverted")

\* C14: when mintAndRegisterIp rejects with a failure that is not a revert,
\* the error recorded in the state is the very value it rejected with, and
\* for an Error the message of the failure result is that error's message.
C14_OtherFailureUnchanged ==
  [][\A r \in Runs, e \in MintThrown :
       MintFail(r, e) /\ ~IsRevert(e) =>
         /\ registerState'.error = e
         /\ e.kind = "Error" => result'[r].error = e.message]_vars

\* C15: a run asks the wallet for a network switch exactly when the chain id
\* its closure read differs from 1315, and the chain it asks for is 1315; a
\* run that read 1315 asks for nothing, gets through ensureAeneid and starts
\* compressing.
C15_SwitchIffNotAeneid ==
  \A r \in Runs :
    pc[r] # "free" =>
      /\ Count(calls[r], "switchChainAsync") = 1 <=> chainId[r] # 1315
      /\ Count(calls[r], "switchChainAsync") = 0 <=> chainId[r] = 1315
      /\ chainId[r] # 1315 => switchTo[r] = 1315
      /\ chainId[r] = 1315 =>
           /\ switchTo[r] = 0
           /\ pc[r] = "done" => /\ writes[r] # <<>>
                                /\ writes[r][1] = <<"compressing", 10>>

C15_Witness ==
  \E r, q \in Runs :
    /\ chainId[r] = 1315 /\ pc[r] = "compressImage" /\ calls[r] = <<"compressImage">>
    /\ chainId[q] = 1 /\ pc[q] = "compressImage" /\ switchTo[q] = 1315
    /\ calls[q] = <<"switchChainAsync", "compressImage">>

\* the runs that have been started and have not returned
Running == {r \in Runs : pc[r] \notin {"free", "done"}}

\* C16: when executeRegister is started only in status idle, success or
\* error, at most one run is in flight, and while a run is in flight the
\* status is one of compressing, uploading-image, creating-metadata,
\* uploading-metadata, minting.
C16_GuardGivesOneRun ==
  /\ Cardinality(Running) <= 1
  /\ Running # {} => registerState.status \in InFlight

\* C17: the state gets status success only in the step in which
\* mintAndRegisterIp of a run resolves; that step stores the identifiers the
\* call resolved with, progress 100 and error null, and the run returns a
\* success result with the same identifiers; every state with status success
\* carries the identifiers of the success result of a run whose last call was
\* mintAndRegisterIp.
C17_SuccessOnlyByMint ==
  [][/\ \A r \in Runs, res \in MintResults :
          MintDone(r, res) =>
            /\ registerState' = [status |-> "success", progress |-> 100,
                                 error |-> Null, ipId |-> res.ipId,
                                 txHash |-> res.txHash]
            /\ result'[r].returned /\ result'[r].success
            /\ result'[r].ipId = res.ipId /\ result'[r].txHash = res.txHash
     /\ registerState'.status = "success" =>
          /\ registerState'.progress = 100
          /\ registerState'.error = Null
          /\ \E r \in Runs :
               /\ result'[r].returned /\ result'[r].success
               /\ result'[r].ipId = registerState'.ipId
               /\ result'[r].txHash = registerState'.txHash
               /\ calls'[r][Len(calls'[r])] = "mintAndRegisterIp"
     /\ registerState'.status = "success" /\ registerState' # registerState =>
          \E r \in Runs, res \in MintResults : MintDone(r, res)]_vars

\* two runs have succeeded with different identifiers; the state holds the
\* later ones
C17_Witness ==
  \E r, q \in Runs :
    /\ result[r].success /\ result[q].success
    /\ result[r].ipId # result[q].ipId
    /\ registerState.status = "success"
    /\ registerState.ipId = result[r].ipId
    /\ registerState.txHash = result[r].txHash

\* the progress each status other than error is written with
ProgressOf(status) ==
  CASE status = "idle" -> 0
    [] status = "compressing" -> 10
    [] status = "uploading-image" -> 25
    [] status = "creating-metadata" -> 50
    [] status = "uploading-metadata" -> 60
    [] status = "minting" -> 75
    [] status = "success" -> 100

\* C18: in every reachable state whose status is not error, with runs
\* overlapping and resets in between, progress is the value paired with the
\* status: idle 0, compressing 10, uploading-image 25, creating-metadata 50,
\* uploading-metadata 60, minting 75, success 100.
C18_ProgressPairedWithStatus ==
  registerState.status # "error" =>
    /\ registerState.status \in InFlight \cup {"idle", "success"}
    /\ registerState.progress = ProgressOf(registerState.status)

\* a second run has set compressing while the first is about to mint
C18_Witness ==
  \E r, q \in Runs :
    /\ pc[r] = "getClient" /\ pc[q] = "compressImage"
    /\ registerState.status = "compressing" /\ registerState.progress = 10

\* the validation before the contract call fails in this step of run r
ValidationFails(r) ==
  \E hash \in Hashes :
    KeccakNftMetadataDone(r, hash) /\ ~MetadataValid(MetadataOf(r, hash))

\* C19: the step in which a run fails sets status error and leaves progress,
\* ipId and txHash as they were just before the failure was recorded: as in
\* the state before the step, except that a failed validation comes right
\* after the run's own update to minting, so progress is then 75.
C19_CatchKeepsProgressAndIds ==
  [][\A r \in Runs :
       Threw(r) =>
         /\ registerState'.status = "error"
         /\ registerState'.ipId = registerState.ipId
         /\ registerState'.txHash = registerState.txHash
         /\ registerState'.progress =
              IF ValidationFails(r) THEN 75 ELSE registerState.progress]_vars

\* a run failed while uploading the image, after the other run had succeeded:
\* the state is in error with progress 25 and the identifiers of the success
C19_Witness ==
  \E r, q \in Runs :
    /\ result[r].returned /\ ~result[r].success
    /\ calls[r][Len(calls[r])] = "uploadFile"
    /\ result[q].success
    /\ registerState.status = "error"
    /\ registerState.progress = 25
    /\ registerState.ipId = result[q].ipId
    /\ registerState.txHash = result[q].txHash

====
